---------------------------- MODULE Spec2Model ----------------------------
(***************************************************************************)
(* A model of the BNF line parser of nvim-bnf (package pkg/parser): the    *)
(* strict recursive-descent parser (semantic.go), the permissive tokenizer *)
(* (syntactic.go), the dispatcher Parse and the in-order traversal         *)
(* (parser.go), over byte sequences drawn from bounded sets.               *)
(*                                                                         *)
(* Bytes are their numeric codes.  The Go cursor p.pos is kept 0-based;    *)
(* the byte p.buf[i] is buf[i + 1] here.  Every parsing function returns   *)
(* the record [err, pos, val]: the error it returns, the cursor it leaves  *)
(* behind in p.pos and the value it returns.                               *)
(***************************************************************************)
EXTENDS Integers, Sequences, FiniteSets, TLC

VARIABLES src, typed, op, ast, err, trav

(* The plugin's state: doc is the Document of the buffer (Nil before the   *)
(* buffer is attached), index the map NonTerminalIndex, hunk the outcome   *)
(* of the last buffer event and events the number of events handled.       *)
VARIABLES doc, index, hunk, events

(* tasks holds, for each task that runs updateCompletionIndex on a line of *)
(* its own, the names its traversal visits and how far its visitor got.    *)
VARIABLES tasks

parserVars == <<src, typed, op, ast, err, trav>>
docVars == <<doc, index, hunk, events>>

vars == <<src, typed, op, ast, err, trav, doc, index, hunk, events, tasks>>

-----------------------------------------------------------------------------
(* Byte codes named by the parsers.                                        *)

NUL == 0
EOL == 10
Space == 32
DoubleQuote == 34
Quote == 39
Hyphen == 45
Colon == 58
Semicolon == 59
LAngle == 60
Equals == 61
RAngle == 62
VerticalBar == 124

-----------------------------------------------------------------------------
(* Errors.  Every error value is a record of one shape; NoErr is Go's nil. *)

Err(k, b, p, d) == [kind |-> k, base |-> b, pos |-> p, desc |-> d]

NoErr == Err("nil", "nil", 0, "")
EOF == Err("EOF", "EOF", 0, "")
ErrUnexpectedChar == Err("ErrUnexpectedChar", "ErrUnexpectedChar", 0, "")
ErrNoStatements == Err("ErrNoStatements", "ErrNoStatements", 0, "")
ErrEmptyRule == Err("ErrEmptyRule", "ErrEmptyRule", 0, "")

(* &Error{err, pos}: a positioned error.                                   *)
Error(e, p) == Err("Error", e.base, p, "")

(* NewDescError(err, pos, desc).                                           *)
NewDescError(e, p, d) == Err("DescError", e.base, p, d)

R(e, p, v) == [err |-> e, pos |-> p, val |-> v]

-----------------------------------------------------------------------------
(* Lexical primitives.  SemanticParser and SyntacticParser carry the same  *)
(* text for these functions.                                               *)

(* A local variable: K applied to the value v that a call returned.        *)
With(v, K(_)) == K(v)

At(buf, i) == buf[i + 1]

eof(buf, pos) == IF pos = Len(buf) THEN EOF ELSE NoErr

parseChar(buf, pos, char) ==
    IF eof(buf, pos) # NoErr THEN R(eof(buf, pos), pos, 0)
    ELSE IF At(buf, pos) # char THEN R(ErrUnexpectedChar, pos, 0)
    ELSE R(NoErr, pos + 1, At(buf, pos))

parseEOL(buf, pos) == parseChar(buf, pos, EOL)
parseLAngle(buf, pos) == parseChar(buf, pos, LAngle)
parseRAngle(buf, pos) == parseChar(buf, pos, RAngle)
parseHyphen(buf, pos) == parseChar(buf, pos, Hyphen)
parseQuote(buf, pos) == parseChar(buf, pos, Quote)
parseDoubleQuote(buf, pos) == parseChar(buf, pos, DoubleQuote)
parseVerticalBar(buf, pos) == parseChar(buf, pos, VerticalBar)

parseLetter(buf, pos) ==
    IF eof(buf, pos) # NoErr THEN R(eof(buf, pos), pos, 0)
    ELSE With(At(buf, pos), LAMBDA char :
             IF (char >= 65 /\ char <= 90) \/ (char >= 97 /\ char <= 122)
             THEN R(NoErr, pos + 1, char)
             ELSE R(ErrUnexpectedChar, pos, 0))

parseDigit(buf, pos) ==
    IF eof(buf, pos) # NoErr THEN R(eof(buf, pos), pos, 0)
    ELSE With(At(buf, pos), LAMBDA char :
             IF char >= 48 /\ char <= 57
             THEN R(NoErr, pos + 1, char)
             ELSE R(ErrUnexpectedChar, pos, 0))

symbols ==
    { 124, 32, 33, 35, 36, 37, 38, 40, 41, 42, 43, 44, 45, 46, 47, 58, 59,
      62, 61, 60, 63, 64, 91, 92, 93, 94, 95, 96, 123, 125, 126 }

parseSymbol(buf, pos) ==
    IF eof(buf, pos) # NoErr THEN R(eof(buf, pos), pos, 0)
    ELSE With(At(buf, pos), LAMBDA char :
             IF char \in symbols
             THEN R(NoErr, pos + 1, char)
             ELSE R(ErrUnexpectedChar, pos, 0))

parseRuleChar(buf, pos) ==
    With(parseLetter(buf, pos), LAMBDA letter :
    With(parseDigit(buf, pos), LAMBDA digit :
    With(parseHyphen(buf, pos), LAMBDA hyphen :
        IF letter.err = NoErr THEN letter
        ELSE IF digit.err = NoErr THEN digit
        ELSE IF hyphen.err = NoErr THEN hyphen
        ELSE R(ErrUnexpectedChar, pos, 0))))

parseCharacter(buf, pos) ==
    With(parseLetter(buf, pos), LAMBDA letter :
    With(parseDigit(buf, pos), LAMBDA digit :
    With(parseSymbol(buf, pos), LAMBDA symbol :
        IF letter.err = NoErr THEN letter
        ELSE IF digit.err = NoErr THEN digit
        ELSE IF symbol.err = NoErr THEN symbol
        ELSE R(ErrUnexpectedChar, pos, 0))))

(* A variant of parseCharacterAndQuote that does not take the quote.       *)
parseCharacterAndQuote_NoQuote(buf, pos) == parseCharacter(buf, pos)

parseCharacterAndQuote(buf, pos) ==
    With(parseQuote(buf, pos), LAMBDA quote :
        IF quote.err = NoErr THEN quote ELSE parseCharacter(buf, pos))

parseCharacterAndDoubleQuote(buf, pos) ==
    With(parseDoubleQuote(buf, pos), LAMBDA quote :
        IF quote.err = NoErr THEN quote ELSE parseCharacter(buf, pos))

(* The loop "for { if char, err := f(); err == nil { append } else break }" *)
(* of parseRuleName: the name collected from pos on and the cursor where   *)
(* the loop stops.                                                         *)
RECURSIVE ruleCharLoop(_, _, _)
ruleCharLoop(buf, pos, name) ==
    With(parseRuleChar(buf, pos), LAMBDA c :
        IF c.err = NoErr
        THEN ruleCharLoop(buf, c.pos, Append(name, c.val))
        ELSE R(NoErr, pos, name))

parseRuleName(buf, pos) ==
    With(parseLetter(buf, pos), LAMBDA letter :
        IF letter.err # NoErr THEN R(letter.err, pos, <<>>)
        ELSE ruleCharLoop(buf, letter.pos, <<letter.val>>))

RECURSIVE parseOptWhitespace(_, _)
parseOptWhitespace(buf, pos) ==
    IF pos < Len(buf) /\ At(buf, pos) = Space
    THEN parseOptWhitespace(buf, pos + 1)
    ELSE R(NoErr, pos, 0)

(* The body loops of parseLiteral: bytes accepted after the opening quote. *)
RECURSIVE charAndQuoteLoop(_, _, _)
charAndQuoteLoop(buf, pos, literal) ==
    With(parseCharacterAndQuote(buf, pos), LAMBDA c :
        IF c.err # NoErr THEN R(NoErr, pos, literal)
        ELSE charAndQuoteLoop(buf, c.pos, Append(literal, c.val)))

RECURSIVE charAndDoubleQuoteLoop(_, _, _)
charAndDoubleQuoteLoop(buf, pos, literal) ==
    With(parseCharacterAndDoubleQuote(buf, pos), LAMBDA c :
        IF c.err # NoErr THEN R(NoErr, pos, literal)
        ELSE charAndDoubleQuoteLoop(buf, c.pos, Append(literal, c.val)))

(* A variant of parseDisjunction whose token begins where it ends.         *)
parseDisjunction_EmptyRange(buf, pos) ==
    With(parseVerticalBar(buf, pos), LAMBDA bar :
        IF bar.err # NoErr THEN R(bar.err, pos, 0)
        ELSE R(NoErr, bar.pos,
               [Name |-> <<VerticalBar>>, Begin |-> bar.pos,
                End |-> bar.pos]))

parseDisjunction(buf, pos) ==
    With(parseVerticalBar(buf, pos), LAMBDA bar :
        IF bar.err # NoErr THEN R(bar.err, pos, 0)
        ELSE R(NoErr, bar.pos,
               [Name |-> <<VerticalBar>>, Begin |-> bar.pos - 1,
                End |-> bar.pos]))

-----------------------------------------------------------------------------
(* The strict parser: SemanticParser of semantic.go.  Its values are       *)
(* Term{Name, Terminal, Begin, End}, List ([]*Term), Stmt{Token, Head,     *)
(* Tail} and ProductionRule{Token, Name, Stmt}; a nil pointer is Nil.      *)

Nil == [kind |-> "nil"]

Term(name, terminal, begin, end) ==
    [kind |-> "Term", Name |-> name, Terminal |-> terminal,
     Begin |-> begin, End |-> end]

List(terms) == [kind |-> "List", terms |-> terms]

(* string(p.buf[p.pos:p.pos+3]): the buffer that ioutil.ReadAll returns    *)
(* has zeroed spare capacity behind its length, so the slice expression    *)
(* reads 0 for the bytes past len(p.buf).                                  *)
SliceFrom(buf, pos, n) ==
    [i \in 1..n |-> IF pos + i <= Len(buf) THEN buf[pos + i] ELSE NUL]

Sem_parseDefinitionSimbol(buf, pos) ==
    IF SliceFrom(buf, pos, 3) # <<Colon, Colon, Equals>>
    THEN R(ErrUnexpectedChar, pos, Nil)
    ELSE R(NoErr, pos + 3,
           [Name |-> <<Colon, Colon, Equals>>, Begin |-> pos, End |-> pos + 3])

Sem_parseLiteral(buf, pos) ==
    IF eof(buf, pos) # NoErr THEN R(eof(buf, pos), pos, <<>>)
    ELSE IF At(buf, pos) = DoubleQuote
    THEN With(parseDoubleQuote(buf, pos), LAMBDA open :
         With(charAndQuoteLoop(buf, open.pos, <<>>), LAMBDA body :
         With(parseDoubleQuote(buf, body.pos), LAMBDA close :
             IF open.err # NoErr THEN R(open.err, pos, <<>>)
             ELSE IF close.err # NoErr THEN R(close.err, body.pos, <<>>)
             ELSE R(NoErr, close.pos, body.val))))
    ELSE IF At(buf, pos) = Quote
    THEN With(parseQuote(buf, pos), LAMBDA open :
         With(charAndDoubleQuoteLoop(buf, open.pos, <<>>), LAMBDA body :
         With(parseQuote(buf, body.pos), LAMBDA close :
             IF open.err # NoErr THEN R(open.err, pos, <<>>)
             ELSE IF close.err # NoErr THEN R(close.err, body.pos, <<>>)
             ELSE R(NoErr, close.pos, body.val))))
    ELSE R(ErrUnexpectedChar, pos, <<>>)

Sem_parseNonTerminal(buf, pos) ==
    With(parseLAngle(buf, pos), LAMBDA langle :
    With(parseRuleName(buf, langle.pos), LAMBDA name :
    With(parseRAngle(buf, name.pos), LAMBDA rangle :
        IF langle.err # NoErr THEN R(langle.err, langle.pos, Nil)
        ELSE IF name.err # NoErr THEN R(name.err, name.pos, Nil)
        ELSE IF rangle.err # NoErr THEN R(rangle.err, rangle.pos, Nil)
        ELSE R(NoErr, rangle.pos, Term(name.val, FALSE, pos, rangle.pos)))))

(* parseTerm does not restore the cursor between its two attempts: the     *)
(* non-terminal is tried where the failed literal left p.pos.              *)
Sem_parseTerm(buf, pos) ==
    With(Sem_parseLiteral(buf, pos), LAMBDA literal :
        IF literal.err = NoErr
        THEN R(NoErr, literal.pos, Term(literal.val, TRUE, pos, literal.pos))
        ELSE Sem_parseNonTerminal(buf, literal.pos))

(* The loop of parseList after the first term: offset is the cursor behind *)
(* the last term parsed, restored when the next attempt fails.             *)
(* A variant of the loop that leaves the cursor where the failed attempt   *)
(* for the next term left it.                                              *)
RECURSIVE Sem_listLoop_NoRestore(_, _, _)
Sem_listLoop_NoRestore(buf, offset, terms) ==
    With(parseOptWhitespace(buf, offset), LAMBDA ws :
    With(Sem_parseTerm(buf, ws.pos), LAMBDA term :
        IF ws.err # NoErr THEN R(NoErr, ws.pos, List(terms))
        ELSE IF term.err # NoErr THEN R(NoErr, term.pos, List(terms))
        ELSE Sem_listLoop_NoRestore(buf, term.pos, Append(terms, term.val))))

RECURSIVE Sem_listLoop(_, _, _)
Sem_listLoop(buf, offset, terms) ==
    With(parseOptWhitespace(buf, offset), LAMBDA ws :
    With(Sem_parseTerm(buf, ws.pos), LAMBDA term :
        IF ws.err # NoErr \/ term.err # NoErr
        THEN R(NoErr, offset, List(terms))
        ELSE Sem_listLoop(buf, term.pos, Append(terms, term.val))))

(* A variant of parseList that hands back the first term alone, with the   *)
(* cursor behind the whole list.                                           *)
Sem_parseList_FirstOnly(buf, pos) ==
    With(Sem_parseTerm(buf, pos), LAMBDA term :
        IF term.err # NoErr THEN R(term.err, term.pos, Nil)
        ELSE R(NoErr, Sem_listLoop(buf, term.pos, <<term.val>>).pos,
               List(<<term.val>>)))

Sem_parseList(buf, pos) ==
    With(Sem_parseTerm(buf, pos), LAMBDA term :
        IF term.err # NoErr THEN R(term.err, term.pos, Nil)
        ELSE Sem_listLoop(buf, term.pos, <<term.val>>))

(* A variant of parseExpression that stores head and tail of a Stmt the    *)
(* other way round.                                                        *)
RECURSIVE Sem_parseExpression_Swapped(_, _)
Sem_parseExpression_Swapped(buf, pos) ==
    With(Sem_parseList(buf, pos), LAMBDA head :
    With(parseOptWhitespace(buf, head.pos), LAMBDA ws1 :
    With(parseDisjunction(buf, ws1.pos), LAMBDA token :
    With(parseOptWhitespace(buf, token.pos), LAMBDA ws2 :
        IF head.err # NoErr THEN R(head.err, head.pos, Nil)
        ELSE IF ws1.err # NoErr THEN R(NoErr, head.pos, head.val)
        ELSE IF token.err # NoErr THEN R(NoErr, head.pos, head.val)
        ELSE IF ws2.err # NoErr THEN R(NoErr, head.pos, head.val)
        ELSE With(Sem_parseExpression_Swapped(buf, ws2.pos), LAMBDA tail :
                 IF tail.err # NoErr THEN R(NoErr, head.pos, head.val)
                 ELSE R(NoErr, tail.pos,
                        [kind |-> "Stmt", Token |-> token.val,
                         Head |-> tail.val, Tail |-> head.val]))))))

(* offset, the cursor behind the head, is head.pos.                        *)
RECURSIVE Sem_parseExpression(_, _)
Sem_parseExpression(buf, pos) ==
    With(Sem_parseList(buf, pos), LAMBDA head :
    With(parseOptWhitespace(buf, head.pos), LAMBDA ws1 :
    With(parseDisjunction(buf, ws1.pos), LAMBDA token :
    With(parseOptWhitespace(buf, token.pos), LAMBDA ws2 :
        IF head.err # NoErr THEN R(head.err, head.pos, Nil)
        ELSE IF ws1.err # NoErr THEN R(NoErr, head.pos, head.val)
        ELSE IF token.err # NoErr THEN R(NoErr, head.pos, head.val)
        ELSE IF ws2.err # NoErr THEN R(NoErr, head.pos, head.val)
        ELSE With(Sem_parseExpression(buf, ws2.pos), LAMBDA tail :
                 IF tail.err # NoErr THEN R(NoErr, head.pos, head.val)
                 ELSE R(NoErr, tail.pos,
                        [kind |-> "Stmt", Token |-> token.val,
                         Head |-> head.val, Tail |-> tail.val]))))))

RECURSIVE Sem_parseLineEnd(_, _)
Sem_parseLineEnd(buf, pos) ==
    With(parseOptWhitespace(buf, pos), LAMBDA ws :
    With(parseEOL(buf, ws.pos), LAMBDA eol :
        IF ws.err # NoErr THEN R(ws.err, ws.pos, 0)
        ELSE IF eol.err # NoErr THEN R(eol.err, eol.pos, 0)
        ELSE With(Sem_parseLineEnd(buf, eol.pos), LAMBDA more :
                 IF more.err # NoErr THEN R(NoErr, eol.pos, 0)
                 ELSE R(NoErr, more.pos, 0))))

Sem_parseRule(buf, pos) ==
    With(parseOptWhitespace(buf, pos), LAMBDA ws1 :
    With(Sem_parseNonTerminal(buf, ws1.pos), LAMBDA name :
    With(parseOptWhitespace(buf, name.pos), LAMBDA ws2 :
    With(Sem_parseDefinitionSimbol(buf, ws2.pos), LAMBDA token :
    With(parseOptWhitespace(buf, token.pos), LAMBDA ws3 :
    With(Sem_parseExpression(buf, ws3.pos), LAMBDA stmt :
    With(Sem_parseLineEnd(buf, stmt.pos), LAMBDA lineEnd :
    With([kind |-> "ProductionRule", Token |-> token.val,
          Name |-> name.val, Stmt |-> stmt.val], LAMBDA rule :
        IF ws1.err # NoErr THEN R(ws1.err, ws1.pos, Nil)
        ELSE IF name.err # NoErr THEN R(name.err, name.pos, Nil)
        ELSE IF ws2.err # NoErr THEN R(ws2.err, ws2.pos, Nil)
        ELSE IF token.err # NoErr THEN R(token.err, token.pos, Nil)
        ELSE IF ws3.err # NoErr THEN R(ws3.err, ws3.pos, Nil)
        ELSE IF stmt.err # NoErr THEN R(stmt.err, stmt.pos, Nil)
        ELSE IF lineEnd.err = EOF THEN R(NoErr, lineEnd.pos, rule)
        ELSE IF lineEnd.err # NoErr THEN R(lineEnd.err, lineEnd.pos, Nil)
        ELSE R(NoErr, lineEnd.pos, rule)))))))))

(* parseSyntax hands back the list of rules; val is that list.  A rule     *)
(* that parseRule returned together with io.EOF is appended as it is, and  *)
(* parseRule returns a nil rule with every error.                          *)
RECURSIVE Sem_parseSyntax(_, _)
Sem_parseSyntax(buf, pos) ==
    With(Sem_parseRule(buf, pos), LAMBDA rule :
        IF rule.err = EOF THEN R(NoErr, rule.pos, <<rule.val>>)
        ELSE IF rule.err # NoErr THEN R(rule.err, rule.pos, <<>>)
        ELSE With(Sem_parseSyntax(buf, rule.pos), LAMBDA rules :
                 IF rules.err # NoErr THEN R(NoErr, rules.pos, <<rule.val>>)
                 ELSE R(NoErr, rules.pos, <<rule.val>> \o rules.val)))

-----------------------------------------------------------------------------
(* The node model of ast.go.  A Node interface value is Nil (the nil       *)
(* interface) or a record with the concrete type in kind; null marks an    *)
(* interface that holds a nil pointer of that type.                        *)

Token(name, begin, end) == [Name |-> name, Begin |-> begin, End |-> end]

Leaf(kind, token) ==
    [kind |-> kind, null |-> FALSE,
     Name |-> token.Name, Begin |-> token.Begin, End |-> token.End]

Terminal(token) == Leaf("Terminal", token)
NonTerminal(token) == Leaf("NonTerminal", token)
Comment(token) == Leaf("Comment", token)

Expression(kind, token, left, right) ==
    [kind |-> kind, null |-> FALSE,
     Name |-> token.Name, Begin |-> token.Begin, End |-> token.End,
     LeftChild |-> left, RightChild |-> right]

AlternativeExpression(token, left, right) ==
    Expression("AlternativeExpression", token, left, right)
AssignmentExpression(token, left, right) ==
    Expression("AssignmentExpression", token, left, right)
CompoundExpression(token, left, right) ==
    Expression("CompoundExpression", token, left, right)

Statement(rule, comment) ==
    [kind |-> "Statement", null |-> FALSE, Rule |-> rule, Comment |-> comment]

(* A nil pointer of a concrete type, as a struct field holds it.           *)
NilPtr(kind) == [kind |-> kind, null |-> TRUE]

(* What a run-time panic (nil pointer dereference) leaves instead of a     *)
(* value.                                                                  *)
Panic == [kind |-> "panic"]

ExpressionKinds ==
    {"AlternativeExpression", "AssignmentExpression", "CompoundExpression"}

(* Left() and Right().  Statement returns its typed pointer fields as      *)
(* Node, so the interface is non-nil also when the pointer is nil; Comment *)
(* has methods of its own that touch no field; the other types reach the   *)
(* methods of the embedded Token or Expression through the pointer.        *)
Left(node) ==
    IF node.kind = "Comment" THEN Nil
    ELSE IF node.null THEN Panic
    ELSE IF node.kind = "Statement" THEN node.Rule
    ELSE IF node.kind \in ExpressionKinds THEN node.LeftChild
    ELSE Nil

Right(node) ==
    IF node.kind = "Comment" THEN Nil
    ELSE IF node.null THEN Panic
    ELSE IF node.kind = "Statement" THEN node.Comment
    ELSE IF node.kind \in ExpressionKinds THEN node.RightChild
    ELSE Nil

-----------------------------------------------------------------------------
(* The permissive tokenizer: SyntacticParser of syntactic.go.              *)

Syn_parseDefinitionSimbol(buf, pos) ==
    IF pos + 3 >= Len(buf) THEN R(EOF, pos, Nil)
    ELSE IF SliceFrom(buf, pos, 3) # <<Colon, Colon, Equals>>
    THEN R(ErrUnexpectedChar, pos, Nil)
    ELSE R(NoErr, pos + 3, Token(<<Colon, Colon, Equals>>, pos, pos + 3))

Syn_parseLiteral(buf, pos) ==
    IF eof(buf, pos) # NoErr THEN R(eof(buf, pos), pos, <<>>)
    ELSE IF At(buf, pos) = DoubleQuote
    THEN With(parseDoubleQuote(buf, pos), LAMBDA open :
         With(charAndQuoteLoop(buf, open.pos, <<>>), LAMBDA body :
         With(parseDoubleQuote(buf, body.pos), LAMBDA close :
             IF open.err # NoErr THEN R(open.err, pos, <<>>)
             ELSE IF close.err # NoErr
             THEN R(NewDescError(close.err, body.pos, "terminal"), body.pos,
                    <<>>)
             ELSE R(NoErr, close.pos, body.val))))
    ELSE IF At(buf, pos) = Quote
    THEN With(parseQuote(buf, pos), LAMBDA open :
         With(charAndDoubleQuoteLoop(buf, open.pos, <<>>), LAMBDA body :
         With(parseQuote(buf, body.pos), LAMBDA close :
             IF open.err # NoErr THEN R(open.err, pos, <<>>)
             ELSE IF close.err # NoErr
             THEN R(NewDescError(close.err, body.pos, "terminal"), body.pos,
                    <<>>)
             ELSE R(NoErr, close.pos, body.val))))
    ELSE R(NewDescError(ErrUnexpectedChar, pos, "terminal"), pos, <<>>)

Syn_parseNonTerminal(buf, begin) ==
    With(parseLAngle(buf, begin), LAMBDA langle :
    With(parseRuleName(buf, langle.pos), LAMBDA name :
    With(parseRAngle(buf, name.pos), LAMBDA rangle :
        IF langle.err # NoErr
        THEN R(NewDescError(langle.err, begin, "non-terminal"), langle.pos, Nil)
        ELSE IF name.err # NoErr
        THEN R(NewDescError(name.err, begin, "non-terminal"), name.pos, Nil)
        ELSE IF rangle.err # NoErr
        THEN R(NewDescError(rangle.err, begin, "non-terminal"), rangle.pos, Nil)
        ELSE R(NoErr, rangle.pos,
               NonTerminal(Token(name.val, begin, rangle.pos))))))

(* parseAtom does not restore the cursor between its two attempts.         *)
(* A variant of parseAtom that wraps a literal as a NonTerminal.           *)
Syn_parseAtom_Untyped(buf, begin) ==
    With(Syn_parseLiteral(buf, begin), LAMBDA literal :
        IF literal.err = NoErr
        THEN R(NoErr, literal.pos,
               NonTerminal(Token(literal.val, begin, literal.pos)))
        ELSE Syn_parseNonTerminal(buf, literal.pos))

Syn_parseAtom(buf, begin) ==
    With(Syn_parseLiteral(buf, begin), LAMBDA literal :
        IF literal.err = NoErr
        THEN R(NoErr, literal.pos,
               Terminal(Token(literal.val, begin, literal.pos)))
        ELSE Syn_parseNonTerminal(buf, literal.pos))

(* The scan of parseComment for the end of the comment: the first index    *)
(* from end on that is len(p.buf) or holds a newline or a zero byte.       *)
RECURSIVE commentEnd(_, _)
commentEnd(buf, end) ==
    IF end = Len(buf) THEN end
    ELSE IF At(buf, end) = EOL \/ At(buf, end) = NUL THEN end
    ELSE commentEnd(buf, end + 1)

(* A variant of parseComment that leaves the cursor behind the comment     *)
(* sign only.                                                              *)
Syn_parseComment_SignOnly(buf, pos) ==
    IF eof(buf, pos) # NoErr THEN R(eof(buf, pos), pos, Nil)
    ELSE IF At(buf, pos) # Semicolon THEN R(ErrUnexpectedChar, pos, Nil)
    ELSE With(commentEnd(buf, pos + 1), LAMBDA end :
             R(NoErr, pos + 1, Comment(Token(<<>>, pos, end))))

Syn_parseComment(buf, pos) ==
    IF eof(buf, pos) # NoErr THEN R(eof(buf, pos), pos, Nil)
    ELSE IF At(buf, pos) # Semicolon THEN R(ErrUnexpectedChar, pos, Nil)
    ELSE With(commentEnd(buf, pos + 1), LAMBDA end :
             R(NoErr, end, Comment(Token(<<>>, pos, end))))

(* A variant of the pass that leaves the cursor where it was when nothing  *)
(* is found.                                                               *)
Syn_ruleStep_Stuck(buf, pos) ==
    With(parseDisjunction(buf, pos), LAMBDA bar :
    With(Syn_parseDefinitionSimbol(buf, bar.pos), LAMBDA def :
    With(Syn_parseAtom(buf, def.pos), LAMBDA atom :
    With(Syn_parseComment(buf, atom.pos), LAMBDA comment :
        IF bar.err = NoErr
        THEN R(NoErr, bar.pos, <<AlternativeExpression(bar.val, Nil, Nil)>>)
        ELSE IF def.err = NoErr
        THEN R(NoErr, def.pos, <<AssignmentExpression(def.val, Nil, Nil)>>)
        ELSE IF atom.err = NoErr THEN R(NoErr, atom.pos, <<atom.val>>)
        ELSE IF comment.err = NoErr
        THEN R(NoErr, comment.pos, <<comment.val>>)
        ELSE R(NoErr, pos, <<>>)))))

(* One pass through the body of the scan loop of parseRule at cursor pos:   *)
(* val is the list of the token appended (empty when the byte is stepped   *)
(* over) and pos the cursor for the next pass.  The attempts run in the     *)
(* order of the code and each starts where the one before it left the      *)
(* cursor.                                                                 *)
Syn_ruleStep(buf, pos) ==
    With(parseDisjunction(buf, pos), LAMBDA bar :
    With(Syn_parseDefinitionSimbol(buf, bar.pos), LAMBDA def :
    With(Syn_parseAtom(buf, def.pos), LAMBDA atom :
    With(Syn_parseComment(buf, atom.pos), LAMBDA comment :
        IF bar.err = NoErr
        THEN R(NoErr, bar.pos, <<AlternativeExpression(bar.val, Nil, Nil)>>)
        ELSE IF def.err = NoErr
        THEN R(NoErr, def.pos, <<AssignmentExpression(def.val, Nil, Nil)>>)
        ELSE IF atom.err = NoErr THEN R(NoErr, atom.pos, <<atom.val>>)
        ELSE IF comment.err = NoErr
        THEN R(NoErr, comment.pos, <<comment.val>>)
        ELSE R(NoErr, comment.pos + 1, <<>>)))))

(* The scan loop of parseRule from cursor pos with the tokens collected so *)
(* far.                                                                    *)
RECURSIVE Syn_ruleLoop(_, _, _)
Syn_ruleLoop(buf, pos, tokens) ==
    IF ~(pos < Len(buf)) THEN R(NoErr, pos, tokens)
    ELSE With(Syn_ruleStep(buf, pos), LAMBDA step :
             Syn_ruleLoop(buf, step.pos, tokens \o step.val))

(* A variant of parseRule that gives up on a control byte instead of       *)
(* stepping over it.                                                       *)
Syn_parseRule_Rejecting(buf, pos) ==
    IF \E i \in 1..Len(buf) : buf[i] < Space /\ buf[i] # NUL
    THEN R(ErrUnexpectedChar, Len(buf), <<>>)
    ELSE Syn_ruleLoop(buf, pos, <<>>)

Syn_parseRule(buf, pos) == Syn_ruleLoop(buf, pos, <<>>)

(* bufio.Scanner with its default split function: the lines of the source *)
(* without their newline (and without one carriage return before it); a    *)
(* last line without newline counts when it is not empty.                  *)
dropCR(line) ==
    IF Len(line) > 0 /\ line[Len(line)] = 13
    THEN SubSeq(line, 1, Len(line) - 1)
    ELSE line

RECURSIVE scanLines(_, _)
scanLines(source, line) ==
    IF source = <<>> THEN IF line = <<>> THEN <<>> ELSE <<dropCR(line)>>
    ELSE IF Head(source) = EOL
    THEN <<dropCR(line)>> \o scanLines(Tail(source), <<>>)
    ELSE scanLines(Tail(source), Append(line, Head(source)))

(* parseSyntax of the tokenizer: state after scanning the lines from index *)
(* i on; val is the list of token lists, pos the cursor that the last line *)
(* scanned left in p.pos.                                                  *)
RECURSIVE Syn_scanLoop(_, _, _, _)
Syn_scanLoop(lines, i, pos, rules) ==
    IF i > Len(lines) THEN R(NoErr, pos, rules)
    ELSE With(Syn_parseRule(lines[i], 0), LAMBDA rule :
             IF rule.err = NoErr
             THEN Syn_scanLoop(lines, i + 1, rule.pos, Append(rules, rule.val))
             ELSE Syn_scanLoop(lines, i + 1, rule.pos, rules))

Syn_parseSyntax(source) == Syn_scanLoop(scanLines(source, <<>>), 1, 0, <<>>)

-----------------------------------------------------------------------------
(* The AST of parser.go and the parsers' entry points.                     *)

AST(e, lemmes, rules, semantic) ==
    [kind |-> "AST", err |-> e, lemmes |-> lemmes, rules |-> rules,
     semantic |-> semantic]

(* What an entry point returns: the AST pointer and the error.             *)
Ret(a, e) == [ast |-> a, err |-> e]

(* The ast.go nodes of a strictly parsed rule.  The code that builds them  *)
(* is not part of the sources at hand; the shapes follow the type comments *)
(* of ast.go and the assertions of semantic_test.go: a list of one atom is *)
(* the atom itself, the last atom of a longer list is the right child of   *)
(* the last CompoundExpression, a Stmt is an AlternativeExpression, and a  *)
(* rule is a Statement holding an AssignmentExpression and no Comment.     *)
MakeAtom(term) ==
    IF term.Terminal
    THEN Terminal(Token(term.Name, term.Begin, term.End))
    ELSE NonTerminal(Token(term.Name, term.Begin, term.End))

RECURSIVE MakeCompound(_)
MakeCompound(terms) ==
    IF Len(terms) = 1 THEN MakeAtom(terms[1])
    ELSE CompoundExpression(Token(<<>>, 0, 0),
                            MakeAtom(terms[1]), MakeCompound(Tail(terms)))

RECURSIVE MakeExpression(_)
MakeExpression(node) ==
    IF node.kind = "Stmt"
    THEN AlternativeExpression(node.Token, MakeExpression(node.Head),
                               MakeExpression(node.Tail))
    ELSE MakeCompound(node.terms)

MakeStatement(rule) ==
    IF rule = Nil THEN Nil
    ELSE Statement(AssignmentExpression(rule.Token, MakeAtom(rule.Name),
                                        MakeExpression(rule.Stmt)),
                   NilPtr("Comment"))

MakeStatements(rules) == [i \in 1..Len(rules) |-> MakeStatement(rules[i])]

(* SemanticParser.Parse: the whole source is one buffer.                   *)
Sem_Parse(source) ==
    With(Sem_parseSyntax(source, 0), LAMBDA rules :
        IF rules.err # NoErr
        THEN Ret(Nil, Error(rules.err, rules.pos + 1))
        ELSE Ret(AST(NoErr, <<>>, MakeStatements(rules.val), TRUE), NoErr))

(* SyntacticParser.Parse.  The error of parseSyntax is scanner.Err(), nil  *)
(* for lines within the scanner's token size.                              *)
Syn_Parse(source) ==
    With(Syn_parseSyntax(source), LAMBDA lemmes :
        IF lemmes.err # NoErr
        THEN Ret(Nil, Error(lemmes.err, lemmes.pos + 1))
        ELSE Ret(AST(NoErr, lemmes.val, <<>>, FALSE), NoErr))

(* Variants of Parse that a claim about Parse must tell from it: one       *)
(* without the fallback to the tokenizer, one that does not save the       *)
(* strict parser's error in the AST it returns.                            *)
Parse_NoFallback(source) == Sem_Parse(source)

Parse_NoDiagnostic(source) ==
    With(Sem_Parse(source), LAMBDA sem :
    With(Syn_Parse(source), LAMBDA syn :
        IF sem.err = NoErr THEN Ret(sem.ast, NoErr)
        ELSE IF syn.err # NoErr THEN Ret(Nil, syn.err)
        ELSE Ret(syn.ast, NoErr)))

(* Parse: the dispatcher.                                                  *)
Parse(source) ==
    With(Sem_Parse(source), LAMBDA sem :
    With(Syn_Parse(source), LAMBDA syn :
        IF sem.err = NoErr THEN Ret(sem.ast, NoErr)
        ELSE IF syn.err # NoErr THEN Ret(Nil, syn.err)
        ELSE Ret([syn.ast EXCEPT !.err = sem.err], NoErr)))

(* A variant of NoRules that counts the strict parser's rules only.        *)
NoRules_RulesOnly(a) == Len(a.rules)

NoRules(a) == IF a.semantic THEN Len(a.rules) ELSE Len(a.lemmes)

-----------------------------------------------------------------------------
(* Traversal.  The visitor is a callback of the caller: it returns an      *)
(* error on its failAt-th invocation (never, when failAt = 0).  A run of   *)
(* visit ends as [count, err, stack, visited]: what it returns, the stack  *)
(* it ends with and the nodes it invoked the visitor on, in order.         *)

ErrVisitor == Err("ErrVisitor", "ErrVisitor", 0, "")
ErrPanic == Err("panic", "panic", 0, "")

V(count, e, stack, visited) ==
    [count |-> count, err |-> e, stack |-> stack, visited |-> visited]

(* One iteration of the loop of AST.visit per unfolding: node is the last  *)
(* entry of the stack; popped is the stack without it and parent the last  *)
(* entry of popped, which the right child of parent replaces.              *)
RECURSIVE visitLoop(_, _, _, _)
visitLoop(stack, counter, visited, failAt) ==
    IF Len(stack) = 0 THEN V(counter, NoErr, stack, visited)
    ELSE LET node == stack[Len(stack)]
             popped == SubSeq(stack, 1, Len(stack) - 1)
             parent == popped[Len(popped)]
             replaced == [popped EXCEPT ![Len(popped)] = Right(parent)]
         IN  IF node # Nil
             THEN IF Left(node) = Panic
                  THEN V(counter, ErrPanic, stack, visited)
                  ELSE visitLoop(Append(stack, Left(node)), counter, visited,
                                 failAt)
             ELSE IF Len(popped) = 0
             THEN V(counter, NoErr, popped, visited)
             ELSE IF Right(parent) = Panic
             THEN V(counter + 1, ErrPanic, popped, visited)
             ELSE IF failAt = counter + 1
             THEN V(counter + 1, ErrVisitor, replaced, Append(visited, parent))
             ELSE visitLoop(replaced, counter + 1, Append(visited, parent),
                            failAt)

(* A variant of visit that descends to the right first: the loop of        *)
(* visitLoop with Left and Right exchanged.                                *)
RECURSIVE visitLoop_RightFirst(_, _, _, _)
visitLoop_RightFirst(stack, counter, visited, failAt) ==
    IF Len(stack) = 0 THEN V(counter, NoErr, stack, visited)
    ELSE LET node == stack[Len(stack)]
             popped == SubSeq(stack, 1, Len(stack) - 1)
             parent == popped[Len(popped)]
             replaced == [popped EXCEPT ![Len(popped)] = Left(parent)]
         IN  IF node # Nil
             THEN visitLoop_RightFirst(Append(stack, Right(node)), counter,
                                       visited, failAt)
             ELSE IF Len(popped) = 0
             THEN V(counter, NoErr, popped, visited)
             ELSE IF failAt = counter + 1
             THEN V(counter + 1, ErrVisitor, replaced, Append(visited, parent))
             ELSE visitLoop_RightFirst(replaced, counter + 1,
                                       Append(visited, parent), failAt)

visit_RightFirst(root, failAt) ==
    visitLoop_RightFirst(<<root>>, 0, <<>>, failAt)

visit(root, failAt) == visitLoop(<<root>>, 0, <<>>, failAt)

traverseSemanticTree(a, failAt) ==
    IF Len(a.rules) = 0 THEN V(0, ErrNoStatements, <<>>, <<>>)
    ELSE IF a.rules[1] = Nil THEN V(0, ErrEmptyRule, <<>>, <<>>)
    ELSE visit(a.rules[1], failAt)

(* The loop of traverseSyntacticTree over the first token list.            *)
RECURSIVE lemmesLoop(_, _, _, _)
lemmesLoop(nodes, idx, visited, failAt) ==
    IF idx = Len(nodes) THEN V(Len(nodes), NoErr, <<>>, visited)
    ELSE IF failAt = idx + 1
    THEN V(idx, ErrVisitor, <<>>, Append(visited, nodes[idx + 1]))
    ELSE lemmesLoop(nodes, idx + 1, Append(visited, nodes[idx + 1]), failAt)

(* A variant of traverseSyntacticTree that reports no error for an AST     *)
(* without token lists.                                                    *)
traverseSyntacticTree_Silent(a, failAt) ==
    IF Len(a.lemmes) = 0 THEN V(0, NoErr, <<>>, <<>>)
    ELSE lemmesLoop(a.lemmes[1], 0, <<>>, failAt)

traverseSyntacticTree(a, failAt) ==
    IF Len(a.lemmes) = 0 THEN V(0, ErrNoStatements, <<>>, <<>>)
    ELSE lemmesLoop(a.lemmes[1], 0, <<>>, failAt)

Traverse(a, failAt) ==
    IF a.semantic THEN traverseSemanticTree(a, failAt)
    ELSE traverseSyntacticTree(a, failAt)

-----------------------------------------------------------------------------
(* The document of pkg/highlighting (document.go): the mirrored lines of a *)
(* buffer, the completion index NonTerminalIndex and the processing of a   *)
(* hunk of lines.                                                          *)

(* The map NonTerminalIndex: a function on the names that have an entry;   *)
(* a read of a missing key yields 0.                                       *)
EmptyIndex == [name \in {} |-> 0]

Lookup(idx, name) == IF name \in DOMAIN idx THEN idx[name] ELSE 0

Store(idx, name, n) ==
    [k \in (DOMAIN idx) \cup {name} |-> IF k = name THEN n ELSE idx[k]]

(* The end of the slice p.buf[p.pos:p.pos+3] that the strict parser takes  *)
(* in parseDefinitionSimbol of the rule at the start of buf; 0 when        *)
(* parseRule returns before it.  A slice that ends behind len(p.buf) lies  *)
(* in the spare capacity of the buffer of ioutil.ReadAll and panics when   *)
(* it ends behind the capacity, which the run-time library decides.        *)
Sem_sliceEnd(buf) ==
    With(parseOptWhitespace(buf, 0), LAMBDA ws1 :
    With(Sem_parseNonTerminal(buf, ws1.pos), LAMBDA name :
    With(parseOptWhitespace(buf, name.pos), LAMBDA ws2 :
        IF name.err # NoErr THEN 0 ELSE ws2.pos + 3)))

MayFault(line) == Sem_sliceEnd(line) > Len(line)

(* Document.parse.  When Parse panics, the deferred function recovers and  *)
(* assigns the local err; the results of parse have no names, so the call  *)
(* returns their zero values: a nil AST and a nil error.                   *)
Doc_parse(line, fault) ==
    IF fault THEN Ret(Nil, NoErr)
    ELSE IF Parse(line).err # NoErr THEN Ret(Nil, Parse(line).err)
    ELSE Ret(Parse(line).ast, NoErr)

(* The visitor of updateCompletionIndex along the nodes visited.           *)
RECURSIVE indexLoop(_, _, _)
indexLoop(idx, visited, i) ==
    IF i > Len(visited) THEN idx
    ELSE IF visited[i].kind = "NonTerminal"
    THEN indexLoop(Store(idx, visited[i].Name,
                         Lookup(idx, visited[i].Name) + 1), visited, i + 1)
    ELSE indexLoop(idx, visited, i + 1)

(* A variant of updateCompletionIndex that counts each traversal's names   *)
(* from zero.                                                              *)
updateCompletionIndex_Resetting(a, idx) ==
    IF a = Nil THEN [idx |-> idx, err |-> ErrPanic, visited |-> <<>>]
    ELSE [idx |-> indexLoop(EmptyIndex, Traverse(a, 0).visited, 1),
          err |-> Traverse(a, 0).err, visited |-> Traverse(a, 0).visited]

(* updateCompletionIndex: the index afterwards, the error returned and the *)
(* nodes the traversal visited.  Traverse on a nil AST reads ast.semantic  *)
(* through the nil pointer and panics.                                     *)
updateCompletionIndex(a, idx) ==
    IF a = Nil THEN [idx |-> idx, err |-> ErrPanic, visited |-> <<>>]
    ELSE [idx |-> indexLoop(idx, Traverse(a, 0).visited, 1),
          err |-> Traverse(a, 0).err, visited |-> Traverse(a, 0).visited]

(* The highlight groups of the visitor of hightlightLine; begin and end    *)
(* stay 0 for a Comment, whose case sets the group only.                   *)
Highlight(row, node) ==
    IF node.kind \in {"AssignmentExpression", "AlternativeExpression"}
    THEN <<[row |-> row, grp |-> "Operator", begin |-> node.Begin,
            end |-> node.End]>>
    ELSE IF node.kind = "Terminal"
    THEN <<[row |-> row, grp |-> "String", begin |-> node.Begin,
            end |-> node.End]>>
    ELSE IF node.kind = "NonTerminal"
    THEN <<[row |-> row, grp |-> "Identifier", begin |-> node.Begin,
            end |-> node.End]>>
    ELSE IF node.kind = "Comment"
    THEN <<[row |-> row, grp |-> "Comment", begin |-> 0, end |-> 0]>>
    ELSE <<>>

RECURSIVE highlightLoop(_, _, _)
highlightLoop(row, visited, i) ==
    IF i > Len(visited) THEN <<>>
    ELSE Highlight(row, visited[i]) \o highlightLoop(row, visited, i + 1)

(* hightlightLine: the calls added to the batch, the error returned and    *)
(* whether the virtual text with the diagnostic was set.                   *)
hightlightLine(row, a) ==
    [batch |-> highlightLoop(row, Traverse(a, 0).visited, 1),
     err |-> Traverse(a, 0).err,
     virtual |-> /\ Traverse(a, 0).err = NoErr
                 /\ Traverse(a, 0).count # 0
                 /\ a.err # NoErr]

(* What a call of HightlightHunk leaves: the index, what Document.parse    *)
(* returned for the lines it reached, the nodes the index traversals       *)
(* visited, the batch, the rows with a diagnostic, whether a panic left    *)
(* the call and whether the batch was executed.                            *)
HunkStart(idx) ==
    [index |-> idx, rets |-> <<>>, visited |-> <<>>, batch |-> <<>>,
     virtual |-> {}, escaped |-> FALSE, executed |-> FALSE]

(* The loop of HightlightHunk from row line on; faults is the set of rows  *)
(* on which Parse panics.                                                  *)
RECURSIVE hunkLoop(_, _, _, _, _)
hunkLoop(lines, line, to, faults, st) ==
    IF line = to THEN [st EXCEPT !.executed = TRUE]
    ELSE With(Doc_parse(lines[line + 1], line \in faults), LAMBDA ret :
         With(updateCompletionIndex(ret.ast, st.index), LAMBDA upd :
             IF ret.err # NoErr
             THEN hunkLoop(lines, line + 1, to, faults,
                           [st EXCEPT !.rets = Append(@, ret)])
             ELSE IF upd.err = ErrPanic
             THEN [st EXCEPT !.rets = Append(@, ret), !.escaped = TRUE]
             ELSE hunkLoop(lines, line + 1, to, faults,
                      [st EXCEPT
                          !.rets = Append(@, ret),
                          !.index = upd.idx,
                          !.visited = @ \o upd.visited,
                          !.batch = @ \o hightlightLine(line, ret.ast).batch,
                          !.virtual =
                              IF hightlightLine(line, ret.ast).virtual
                              THEN @ \cup {line} ELSE @])))

(* HightlightHunk with its clamping of from and to.                        *)
HightlightHunk(lines, from, to, faults, idx) ==
    hunkLoop(lines,
             IF from < 0 THEN 0 ELSE from,
             IF to > Len(lines) THEN Len(lines) ELSE to,
             faults, HunkStart(idx))

(* The capacity append gives a slice that outgrows its array (small        *)
(* slices double, or grow to what is needed when that is more).            *)
growslice(oldCap, needed) ==
    IF needed > 2 * oldCap THEN needed ELSE 2 * oldCap

(* Document.Update on the slice d.Lines of capacity d.cap.  The first      *)
(* append writes into the array of d.Lines when from + len(lines) fits its *)
(* capacity; lastLines is a slice of that same array and is read after     *)
(* the write.                                                              *)
Update(d, lines, from, to) ==
    With(Len(d.Lines), LAMBDA oldLen :
    With(from + Len(lines) <= d.cap, LAMBDA inPlace :
    With([i \in 1..(IF from + Len(lines) > oldLen
                    THEN from + Len(lines) ELSE oldLen) |->
             IF i > from /\ i <= from + Len(lines) THEN lines[i - from]
             ELSE d.Lines[i]], LAMBDA written :
    With(IF inPlace THEN written ELSE d.Lines, LAMBDA array :
    With(IF to < oldLen THEN SubSeq(array, to + 1, oldLen) ELSE <<>>,
         LAMBDA lastLines :
    With(IF inPlace THEN d.cap ELSE growslice(d.cap, from + Len(lines)),
         LAMBDA cap1 :
        [Lines |-> SubSeq(d.Lines, 1, from) \o lines \o lastLines,
         cap |-> IF from + Len(lines) + Len(lastLines) <= cap1 THEN cap1
                 ELSE growslice(cap1, from + Len(lines) + Len(lastLines)),
         from |-> from,
         to |-> from + Len(lines)]))))))

-----------------------------------------------------------------------------
(* The state machine.  src is the text of the buffer, typed the number of  *)
(* bytes typed onto it so far; op names the entry point that was called,   *)
(* ast and err are what it returned; trav is the traversal that ran.       *)

MaxTyped == 2
MaxFailAt == 2
MaxDepth == 3

NT(c) == <<LAngle, c, RAngle>>
Lit(c) == <<DoubleQuote, c, DoubleQuote>>
Bar == <<Space, VerticalBar, Space>>
RuleHead == NT(97) \o <<Space, Colon, Colon, Equals, Space>>

(* Rules of one line that the grammar accepts as they stand.               *)
ValidRules ==
    { RuleHead \o NT(98),
      RuleHead \o NT(98) \o <<Space>> \o NT(99),
      RuleHead \o Lit(120) \o Bar \o NT(98),
      RuleHead \o NT(98) \o <<Space>> \o Lit(120) \o Bar \o NT(99) \o Bar
          \o NT(98) \o <<Space>> \o NT(99) \o <<Space>> \o <<Quote, 121, Quote>>,
      NT(97) \o <<Colon, Colon, Equals>> \o NT(98) \o <<VerticalBar>> \o NT(99) }

(* A rule whose literal is not closed, and a text of two rules.            *)
OpenLiteralRule == RuleHead \o <<DoubleQuote, 120>>
TwoRules ==
    RuleHead \o NT(98) \o <<EOL>> \o NT(98)
        \o <<Space, Colon, Colon, Equals, Space>> \o Lit(120)

(* A rule whose double-quoted literal holds the other quote.               *)
QuoteInLiteralRule == RuleHead \o <<DoubleQuote, Quote, DoubleQuote>>

(* The texts an editing session starts from.                               *)
(* A line that ends with the assignment symbol.                            *)
OpenRule == NT(97) \o <<Space, Colon, Colon, Equals>>

Heads ==
    { <<>>, NT(97), RuleHead, OpenLiteralRule, TwoRules, QuoteInLiteralRule,
      OpenRule } \cup ValidRules

(* The bytes typed: blank, newline, quote, letter, bar, brackets, comment  *)
(* sign and a control byte.                                                *)
Typed == { Space, EOL, DoubleQuote, 120, VerticalBar, LAngle, RAngle,
           Semicolon, 1 }

(* The tasks that share the index, and a task that has no line yet.        *)
Tasks == {"first", "second"}

IdleTask == [pc |-> "idle", names |-> <<>>, i |-> 1, counter |-> 0]

NoTasks == [t \in Tasks |-> IdleTask]

(* No buffer event yet.                                                    *)
NoHunk ==
    [kind |-> "none", from |-> 0, to |-> 0, faults |-> {}, before |-> Nil,
     out |-> HunkStart(EmptyIndex)]

Idle ==
    [done |-> FALSE, via |-> "none", root |-> Nil, failAt |-> 0,
     count |-> 0, err |-> NoErr, stack |-> <<>>, visited |-> <<>>]

Ran(via, root, failAt, v) ==
    [done |-> TRUE, via |-> via, root |-> root, failAt |-> failAt,
     count |-> v.count, err |-> v.err, stack |-> v.stack,
     visited |-> v.visited]

(* Trees of Node values of depth at most d; the token name is the path to  *)
(* the node, so that the nodes of a tree differ.                           *)
RECURSIVE Trees(_, _)
Trees(d, path) ==
    IF d = 0 THEN {Nil}
    ELSE {Nil} \cup
         { CompoundExpression(Token(path, 0, 0), l, r) :
             l \in Trees(d - 1, Append(path, 0)),
             r \in Trees(d - 1, Append(path, 1)) }

Roots == Trees(MaxDepth, <<>>) \ {Nil}

Init ==
    /\ src \in Heads
    /\ typed = 0
    /\ op = "edit"
    /\ ast = Nil
    /\ err = NoErr
    /\ trav = Idle
    /\ doc = Nil
    /\ index = EmptyIndex
    /\ hunk = NoHunk
    /\ events = 0
    /\ tasks = NoTasks

Type(b) ==
    /\ op = "edit"
    /\ typed < MaxTyped
    /\ src' = Append(src, b)
    /\ typed' = typed + 1
    /\ UNCHANGED <<op, ast, err, trav>>
    /\ UNCHANGED docVars
    /\ UNCHANGED tasks

Call(name, ret) ==
    /\ op = "edit"
    /\ op' = name
    /\ ast' = ret.ast
    /\ err' = ret.err
    /\ UNCHANGED <<src, typed, trav>>
    /\ UNCHANGED docVars
    /\ UNCHANGED tasks

CallParse == Call("Parse", Parse(src))
CallSemanticParse == Call("SemanticParse", Sem_Parse(src))
CallSyntacticParse == Call("SyntacticParse", Syn_Parse(src))

CallTraverse(failAt) ==
    /\ op \in {"Parse", "SemanticParse", "SyntacticParse"}
    /\ ast # Nil
    /\ ~trav.done
    /\ trav' = Ran("Traverse",
                   IF ast.semantic /\ Len(ast.rules) > 0 THEN ast.rules[1] ELSE Nil,
                   failAt, Traverse(ast, failAt))
    /\ UNCHANGED <<src, typed, op, ast, err>>
    /\ UNCHANGED docVars
    /\ UNCHANGED tasks

(* visit on a tree of its own, as a caller inside the package may run it.  *)
CallVisit(root, failAt) ==
    /\ op = "edit"
    /\ src = <<>>
    /\ typed = 0
    /\ op' = "visit"
    /\ trav' = Ran("visit", root, failAt, visit(root, failAt))
    /\ UNCHANGED <<src, typed, ast, err>>
    /\ UNCHANGED docVars
    /\ UNCHANGED tasks

Next ==
    \/ \E b \in Typed : Type(b)
    \/ CallParse
    \/ CallSemanticParse
    \/ CallSyntacticParse
    \/ \E failAt \in 0..MaxFailAt : CallTraverse(failAt)
    \/ \E root \in Roots, failAt \in 0..MaxFailAt : CallVisit(root, failAt)

Spec == Init /\ [][Next]_vars

-----------------------------------------------------------------------------
(* The plugin as nvim drives it: buffer events handled one at a time by    *)
(* HandleBufLinesEvent (highlighter.go).                                   *)

MaxEvents == 2

RuleLine == RuleHead \o NT(98)
DegradedLine == NT(97) \o <<Space>> \o NT(98)
NameOnlyLine == NT(97)
CommentLine == NT(97) \o <<Space, Semicolon, 120>>

(* The buffers a session attaches to and the lines an edit puts in.        *)
Buffers ==
    { <<>>, <<RuleLine>>, <<RuleLine, DegradedLine>>,
      <<NameOnlyLine, RuleLine>>, <<DegradedLine, NameOnlyLine, RuleLine>> }

Hunks ==
    { <<>>, <<RuleLine>>, <<DegradedLine>>, <<NameOnlyLine, RuleLine>>,
      <<CommentLine>> }

(* The sets of rows from from up to to on which Parse may panic.           *)
FaultSets(lines, from, to) ==
    SUBSET { row \in from..(to - 1) : MayFault(lines[row + 1]) }

Handled(kind, from, to, faults, before, out) ==
    [kind |-> kind, from |-> from, to |-> to, faults |-> faults,
     before |-> before, out |-> out]

DocInit ==
    /\ src = <<>>
    /\ typed = 0
    /\ op = "edit"
    /\ ast = Nil
    /\ err = NoErr
    /\ trav = Idle
    /\ doc = Nil
    /\ index = EmptyIndex
    /\ hunk = NoHunk
    /\ events = 0
    /\ tasks = NoTasks

(* A panic that leaves the handler ends the plugin process: no event is    *)
(* handled after it.                                                       *)
Serving == events < MaxEvents /\ ~hunk.out.escaped

(* nvim_buf_lines_event with lastLine = -1: the whole buffer arrives, a    *)
(* new Document mirrors it and all of it is highlighted.                   *)
AttachEvent(data, faults) ==
    /\ Serving
    /\ doc' = [Lines |-> data, cap |-> Len(data)]
    /\ hunk' = Handled("attach", 0, Len(data), faults, index,
                       HightlightHunk(data, 0, Len(data), faults, index))
    /\ index' = hunk'.out.index
    /\ events' = events + 1
    /\ UNCHANGED parserVars
    /\ UNCHANGED tasks

(* nvim_buf_lines_event for the rows firstLine up to lastLine of a buffer  *)
(* with a Document: Update and HightlightHunk of the rows put in.          *)
LinesEvent(data, firstLine, lastLine, faults) ==
    /\ Serving
    /\ doc # Nil
    /\ doc' = [Lines |-> Update(doc, data, firstLine, lastLine).Lines,
               cap |-> Update(doc, data, firstLine, lastLine).cap]
    /\ hunk' = Handled("lines", firstLine, firstLine + Len(data), faults,
                       index,
                       HightlightHunk(doc'.Lines, firstLine,
                                      firstLine + Len(data), faults, index))
    /\ index' = hunk'.out.index
    /\ events' = events + 1
    /\ UNCHANGED parserVars
    /\ UNCHANGED tasks

(* The same event for a buffer without Document: a warning, nothing else.  *)
UnknownBufferEvent ==
    /\ Serving
    /\ doc = Nil
    /\ hunk' = Handled("unknown", 0, 0, {}, index, HunkStart(index))
    /\ events' = events + 1
    /\ UNCHANGED <<doc, index>>
    /\ UNCHANGED parserVars
    /\ UNCHANGED tasks

DocNext ==
    \/ \E data \in Buffers : \E faults \in FaultSets(data, 0, Len(data)) :
           AttachEvent(data, faults)
    \/ /\ doc # Nil
       /\ \E data \in Hunks : \E firstLine \in 0..Len(doc.Lines) :
              \E lastLine \in firstLine..Len(doc.Lines) :
                  \E faults \in FaultSets(
                         Update(doc, data, firstLine, lastLine).Lines,
                         firstLine, firstLine + Len(data)) :
                      LinesEvent(data, firstLine, lastLine, faults)
    \/ UnknownBufferEvent

DocSpec == DocInit /\ [][DocNext]_vars

-----------------------------------------------------------------------------
(* Two tasks that each run updateCompletionIndex on the AST of a line of   *)
(* their own and share the map NonTerminalIndex.  The visitor reads the    *)
(* entry of a name in one statement and writes it in the next; nothing in  *)
(* Document guards the two, so the statements of the tasks interleave.     *)

SelfRuleLine == RuleHead \o NT(97)

TaskLines == { RuleLine, DegradedLine, NameOnlyLine, SelfRuleLine }

(* The names of the NonTerminal nodes in the order the visitor meets them. *)
RECURSIVE NamesOf(_, _)
NamesOf(visited, i) ==
    IF i > Len(visited) THEN <<>>
    ELSE IF visited[i].kind = "NonTerminal"
    THEN <<visited[i].Name>> \o NamesOf(visited, i + 1)
    ELSE NamesOf(visited, i + 1)

ConcInit ==
    /\ src = <<>>
    /\ typed = 0
    /\ op = "edit"
    /\ ast = Nil
    /\ err = NoErr
    /\ trav = Idle
    /\ doc = Nil
    /\ index = EmptyIndex
    /\ hunk = NoHunk
    /\ events = 0
    /\ tasks = NoTasks

(* The pc of a task whose visitor has dealt with the names before i.       *)
PcAt(names, i) == IF i > Len(names) THEN "done" ELSE "read"

(* A task parses its line and enters the traversal of                      *)
(* updateCompletionIndex.                                                  *)
StartTask(t, line) ==
    /\ tasks[t].pc = "idle"
    /\ tasks' = [tasks EXCEPT ![t] =
           [pc |-> PcAt(NamesOf(Traverse(Doc_parse(line, FALSE).ast, 0).visited,
                                1), 1),
            names |-> NamesOf(Traverse(Doc_parse(line, FALSE).ast, 0).visited,
                              1),
            i |-> 1, counter |-> 0]]
    /\ UNCHANGED <<parserVars, docVars>>

(* var counter = NonTerminalIndex[string(node.Name)]                       *)
ReadCounter(t) ==
    /\ tasks[t].pc = "read"
    /\ tasks' = [tasks EXCEPT ![t].pc = "write",
                              ![t].counter =
                                  Lookup(index, tasks[t].names[tasks[t].i])]
    /\ UNCHANGED <<parserVars, docVars>>

(* NonTerminalIndex[string(node.Name)] = counter + 1                       *)
WriteCounter(t) ==
    /\ tasks[t].pc = "write"
    /\ index' = Store(index, tasks[t].names[tasks[t].i],
                      tasks[t].counter + 1)
    /\ tasks' = [tasks EXCEPT ![t].pc = PcAt(tasks[t].names, tasks[t].i + 1),
                              ![t].i = tasks[t].i + 1]
    /\ UNCHANGED <<parserVars, doc, hunk, events>>

(* The run-time library may notice a write to the map that overlaps        *)
(* another task's access to it and then ends the process.                  *)
MapFault ==
    /\ \E t \in Tasks : \E u \in Tasks \ {t} :
           /\ tasks[t].pc = "write"
           /\ tasks[u].pc \in {"read", "write"}
    /\ tasks' = [t \in Tasks |-> [tasks[t] EXCEPT !.pc = "fatal"]]
    /\ UNCHANGED <<parserVars, docVars>>

ConcNext ==
    \/ \E t \in Tasks, line \in TaskLines : StartTask(t, line)
    \/ \E t \in Tasks : ReadCounter(t)
    \/ \E t \in Tasks : WriteCounter(t)
    \/ MapFault

ConcSpec == ConcInit /\ [][ConcNext]_vars

-----------------------------------------------------------------------------
(* Properties of the entry points.                                          *)

(* The number of lines of a text: one per newline and one for a last line  *)
(* that is not empty and has no newline.                                   *)
NumLines(s) ==
    Cardinality({i \in 1..Len(s) : s[i] = EOL})
        + (IF Len(s) > 0 /\ s[Len(s)] # EOL THEN 1 ELSE 0)

TokenKinds ==
    {"Terminal", "NonTerminal", "Comment", "AlternativeExpression",
     "AssignmentExpression"}

RECURSIVE InOrder(_)
InOrder(node) ==
    IF node = Nil THEN <<>>
    ELSE InOrder(Left(node)) \o <<node>> \o InOrder(Right(node))

(* C3: visit on a tree with a root that is not nil, with a visitor that    *)
(* never fails, ends with an empty stack and no error, has invoked the     *)
(* visitor on the nodes of the tree in in-order, on each node once, and    *)
(* returns the number of nodes.                                            *)
C3_VisitInOrder ==
    (trav.done /\ trav.root # Nil /\ trav.failAt = 0) =>
        /\ trav.err = NoErr
        /\ trav.stack = <<>>
        /\ trav.visited = InOrder(trav.root)
        /\ trav.count = Len(InOrder(trav.root))
        /\ \A i, j \in 1..Len(trav.visited) :
               i # j => trav.visited[i] # trav.visited[j]

C3_Witness ==
    /\ trav.done
    /\ trav.via = "visit"
    /\ trav.failAt = 0
    /\ trav.count = 7
    /\ trav.stack = <<>>
    /\ trav.visited[4] = trav.root

OpensLiteral(s) ==
    /\ Len(s) > Len(RuleHead)
    /\ SubSeq(s, 1, Len(RuleHead)) = RuleHead
    /\ s[Len(RuleHead) + 1] \in {DoubleQuote, Quote}
    /\ \A j \in (Len(RuleHead) + 2)..Len(s) : s[j] # s[Len(RuleHead) + 1]

(* C5 as stated: when the strict parser fails on a rule with a literal     *)
(* that is not closed, the position of the error is the offset of the      *)
(* opening quote (counted from 0, or from 1 as Parse counts).              *)
C5_ErrorAtOpeningQuote ==
    (op = "SemanticParse" /\ OpensLiteral(src) /\ err # NoErr) =>
        err.pos \in {Len(RuleHead), Len(RuleHead) + 1}

(* C6 as stated: for a line that starts with a rule head and goes on with  *)
(* a literal that is not closed, Parse returns the degraded AST, and its   *)
(* token list starts with the NonTerminal of the rule name and the         *)
(* AssignmentExpression of the definition symbol.                          *)
C6_DegradedKeepsRuleHead ==
    (op = "Parse" /\ OpensLiteral(src) /\ NumLines(src) = 1) =>
        /\ ast # Nil
        /\ ~ast.semantic
        /\ Len(ast.lemmes) = 1
        /\ Len(ast.lemmes[1]) >= 2
        /\ ast.lemmes[1][1].kind = "NonTerminal"
        /\ ast.lemmes[1][1].Name = <<97>>
        /\ ast.lemmes[1][2].kind = "AssignmentExpression"

(* C7: the AST that Parse returns has a saved error exactly when it is the *)
(* degraded one; the AST of a successful strict parse has none, and the    *)
(* degraded one has the error of the strict parser.                        *)
C7_DiagnosticIffDegraded ==
    (op = "Parse" /\ ast # Nil) =>
        /\ (ast.err # NoErr) <=> ~ast.semantic
        /\ ast.semantic => Sem_Parse(src).err = NoErr
        /\ ~ast.semantic => ast.err = Sem_Parse(src).err

C7_Witness ==
    /\ op = "Parse"
    /\ ast # Nil
    /\ ast.semantic
    /\ ast.err = NoErr
    /\ ast.rules[1] # Nil

(* A text of one rule: a valid rule, then blanks, then a newline or none.  *)
IsSingleRule(s) ==
    \E v \in ValidRules :
        \E t \in {<<>>, <<Space>>, <<EOL>>, <<Space, EOL>>, <<Space, Space>>} :
            s = v \o t

(* C8 as stated: on a text of one rule the strict parser succeeds and the  *)
(* AST has exactly one rule, which is not nil.                             *)
C8_OneRulePerLine ==
    (op = "SemanticParse" /\ IsSingleRule(src)) =>
        /\ err = NoErr
        /\ ast # Nil
        /\ NoRules(ast) = 1
        /\ ast.rules[1] # Nil

(* The first line of a text, and the bars of a line that stand outside of  *)
(* a literal: quote is 0 outside of literals, else the quote that opened   *)
(* the literal.                                                            *)
FirstLine(s) ==
    IF \E i \in 1..Len(s) : s[i] = EOL
    THEN SubSeq(s, 1, (CHOOSE i \in 1..Len(s) :
                          s[i] = EOL /\ \A j \in 1..(i - 1) : s[j] # EOL) - 1)
    ELSE s

RECURSIVE BarsFrom(_, _, _)
BarsFrom(line, i, quote) ==
    IF i > Len(line) THEN 0
    ELSE IF quote # 0
    THEN BarsFrom(line, i + 1, IF line[i] = quote THEN 0 ELSE quote)
    ELSE IF line[i] \in {DoubleQuote, Quote}
    THEN BarsFrom(line, i + 1, line[i])
    ELSE (IF line[i] = VerticalBar THEN 1 ELSE 0) + BarsFrom(line, i + 1, 0)

Bars(line) == BarsFrom(line, 1, 0)

(* The name between the first pair of angle brackets of a text.            *)
RuleName(s) ==
    LET lt == CHOOSE i \in 1..Len(s) :
                  s[i] = LAngle /\ \A j \in 1..(i - 1) : s[j] # LAngle
        gt == CHOOSE i \in 1..Len(s) :
                  s[i] = RAngle /\ \A j \in 1..(i - 1) : s[j] # RAngle
    IN  SubSeq(s, lt + 1, gt - 1)

AtomKinds == {"Terminal", "NonTerminal"}
ListKinds == AtomKinds \cup {"CompoundExpression"}

(* The atoms below a node, from left to right.                             *)
RECURSIVE Leaves(_)
Leaves(node) ==
    IF node.kind \in ExpressionKinds
    THEN Leaves(node.LeftChild) \o Leaves(node.RightChild)
    ELSE <<node>>

(* A chain of k AlternativeExpressions threaded through the right child:   *)
(* each has a list to the left of its bar and the rest to the right of it, *)
(* and the last right child is a list.                                     *)
RECURSIVE IsAlternativeChain(_, _)
IsAlternativeChain(node, k) ==
    IF k = 0 THEN node.kind \in ListKinds
    ELSE /\ node.kind = "AlternativeExpression"
         /\ node.Name = <<VerticalBar>>
         /\ node.LeftChild.kind \in ListKinds
         /\ \A i \in 1..Len(Leaves(node.LeftChild)) :
                Leaves(node.LeftChild)[i].End <= node.Begin
         /\ \A i \in 1..Len(Leaves(node.RightChild)) :
                node.End <= Leaves(node.RightChild)[i].Begin
         /\ IsAlternativeChain(node.RightChild, k - 1)

RECURSIVE IsCompoundChain(_)
IsCompoundChain(node) ==
    \/ node.kind \in AtomKinds
    \/ /\ node.kind = "CompoundExpression"
       /\ node.LeftChild.kind \in AtomKinds
       /\ IsCompoundChain(node.RightChild)

RECURSIVE AllListsAreChains(_)
AllListsAreChains(node) ==
    IF node.kind = "AlternativeExpression"
    THEN IsCompoundChain(node.LeftChild) /\ AllListsAreChains(node.RightChild)
    ELSE IsCompoundChain(node)

(* The atoms that the tokenizer finds on a line.                           *)
AtomsOf(line) ==
    SelectSeq(Syn_parseRule(line, 0).val, LAMBDA t : t.kind \in AtomKinds)

-----------------------------------------------------------------------------
(* Properties of the literals and of the strict parser's result.           *)

(* The lines of a text as the tokenizer's scanner hands them out.          *)
LinesOf(s) == { scanLines(s, <<>>)[i] : i \in 1..Len(scanLines(s, <<>>)) }

(* The closed literals of a line: the pairs of an opening quote at b and   *)
(* the next quote of the same kind at e (0-based).                         *)
ClosedLiterals(line) ==
    { be \in (0..(Len(line) - 1)) \X (0..(Len(line) - 1)) :
        /\ be[1] < be[2]
        /\ At(line, be[1]) \in {DoubleQuote, Quote}
        /\ At(line, be[2]) = At(line, be[1])
        /\ \A k \in (be[1] + 1)..(be[2] - 1) : At(line, k) # At(line, be[1]) }

BodyOf(line, be) == SubSeq(line, be[1] + 2, be[2])

(* The bytes of the grammar's character class: letters, digits and the     *)
(* symbols, and next to them the quote that does not delimit the literal.  *)
BodyBytes(delimiter) ==
    (65..90) \cup (97..122) \cup (48..57) \cup symbols
        \cup ({DoubleQuote, Quote} \ {delimiter})

(* C11 as stated: every closed literal, whatever bytes other than its      *)
(* delimiter its body holds, is accepted by parseLiteral, with the body as *)
(* its name and the cursor behind the closing quote.                       *)
C11_AnyBodyAccepted ==
    \A line \in LinesOf(src) : \A be \in ClosedLiterals(line) :
        /\ Syn_parseLiteral(line, be[1]).err = NoErr
        /\ Syn_parseLiteral(line, be[1]).val = BodyOf(line, be)
        /\ Syn_parseLiteral(line, be[1]).pos = be[2] + 1

(* C11, amended: a closed literal is accepted by parseLiteral (of both     *)
(* parsers) exactly when its body holds only letters, digits, symbols of   *)
(* the list and the other quote; an accepted literal has the bytes between *)
(* its quotes as its name and leaves the cursor behind the closing quote.  *)
C11_CharacterBodyAccepted ==
    \A line \in LinesOf(src) : \A be \in ClosedLiterals(line) :
        /\ (Syn_parseLiteral(line, be[1]).err = NoErr) <=>
               (\A k \in 1..Len(BodyOf(line, be)) :
                    BodyOf(line, be)[k] \in BodyBytes(At(line, be[1])))
        /\ (Sem_parseLiteral(line, be[1]).err = NoErr) <=>
               (Syn_parseLiteral(line, be[1]).err = NoErr)
        /\ Syn_parseLiteral(line, be[1]).err = NoErr =>
               /\ Syn_parseLiteral(line, be[1]).val = BodyOf(line, be)
               /\ Syn_parseLiteral(line, be[1]).pos = be[2] + 1
               /\ Sem_parseLiteral(line, be[1]).val = BodyOf(line, be)

C11_Witness ==
    /\ op = "SyntacticParse"
    /\ src = QuoteInLiteralRule
    /\ Len(ast.lemmes) = 1
    /\ \E j \in 1..Len(ast.lemmes[1]) :
           /\ ast.lemmes[1][j].kind = "Terminal"
           /\ ast.lemmes[1][j].Name = <<Quote>>
    /\ C11_CharacterBodyAccepted

(* The lines of a text that hold a byte other than a blank.                *)
NonBlankLines(s) ==
    { i \in 1..Len(scanLines(s, <<>>)) :
        \E k \in 1..Len(scanLines(s, <<>>)[i]) :
            scanLines(s, <<>>)[i][k] # Space }

(* C12: the strict parser either fails, with a positioned error and no     *)
(* AST, or succeeds with the cursor at the end of the text and one rule    *)
(* for each line that is not blank: no success leaves bytes unparsed or    *)
(* hands back the rules parsed before a rule that failed.                  *)
C12_FailsOrConsumesAll ==
    op = "SemanticParse" =>
        \/ /\ err # NoErr
           /\ err.kind = "Error"
           /\ ast = Nil
        \/ /\ err = NoErr
           /\ ast # Nil
           /\ Sem_parseSyntax(src, 0).pos = Len(src)
           /\ Cardinality({i \in 1..Len(ast.rules) : ast.rules[i] # Nil})
                  = Cardinality(NonBlankLines(src))

-----------------------------------------------------------------------------
(* Properties of the tokenizer's tokens and of its scan loop.              *)

(* The tokenizer's AST is at hand: from SyntacticParser.Parse, or from     *)
(* Parse after the strict parser failed.                                   *)
Degraded ==
    /\ op \in {"SyntacticParse", "Parse"}
    /\ ast # Nil
    /\ ~ast.semantic

(* Whether text is the source text of the token t, text being the bytes of *)
(* the line from t.Begin up to t.End and rest the bytes behind them.       *)
IsSourceText(t, text, rest) ==
    IF t.kind = "NonTerminal"
    THEN text = <<LAngle>> \o t.Name \o <<RAngle>>
    ELSE IF t.kind = "Terminal"
    THEN \/ text = <<DoubleQuote>> \o t.Name \o <<DoubleQuote>>
         \/ text = <<Quote>> \o t.Name \o <<Quote>>
    ELSE IF t.kind = "AssignmentExpression"
    THEN text = <<Colon, Colon, Equals>> /\ t.Name = text
    ELSE IF t.kind = "AlternativeExpression"
    THEN text = <<VerticalBar>> /\ t.Name = text
    ELSE /\ t.kind = "Comment"
         /\ Len(text) >= 1
         /\ text[1] = Semicolon
         /\ \A k \in 2..Len(text) : text[k] # NUL
         /\ (rest = <<>> \/ rest[1] = NUL)

C18_DegradedRuleCount ==
    Degraded =>
        /\ NoRules(ast) = Len(ast.lemmes)
        /\ NoRules(ast) = NumLines(src)
        /\ (src = <<>> => NoRules(ast) = 0)
        /\ \A i \in 1..Len(scanLines(src, <<>>)) :
               Syn_parseRule(scanLines(src, <<>>)[i], 0).val = <<>>
                   => ast.lemmes[i] = <<>>

C18_Witness ==
    /\ op = "SyntacticParse"
    /\ ~ast.semantic
    /\ NoRules(ast) = 2
    /\ ast.lemmes[1] # <<>>
    /\ ast.lemmes[2] = <<>>

(* The positions at which the scan loop of a line starts a pass, from the  *)
(* cursor position pos on.                                                 *)
RECURSIVE CursorsOf(_, _)
CursorsOf(line, pos) ==
    IF ~(pos < Len(line)) THEN {}
    ELSE {pos} \cup CursorsOf(line, Syn_ruleStep(line, pos).pos)

(* C19: at every position at which the scan loop starts a pass and neither *)
(* a bar nor the assignment symbol nor an atom nor a comment is found, the *)
(* pass appends nothing and leaves the cursor one byte further.            *)
C19_SkipAdvancesOne ==
    \A line \in LinesOf(src) : \A p \in CursorsOf(line, 0) :
        ( /\ parseDisjunction(line, p).err # NoErr
          /\ Syn_parseDefinitionSimbol(line, p).err # NoErr
          /\ Syn_parseAtom(line, p).err # NoErr
          /\ Syn_parseComment(line, p).err # NoErr )
            => /\ Syn_ruleStep(line, p).val = <<>>
               /\ Syn_ruleStep(line, p).pos = p + 1

(* C20: at every position at which the scan loop starts a pass and the     *)
(* next three bytes are the assignment symbol, the last three bytes of the *)
(* line included, the pass appends an assignment token over these three    *)
(* bytes and leaves the cursor behind them.                                *)
C20_AssignmentAtCursor ==
    \A line \in LinesOf(src) : \A p \in CursorsOf(line, 0) :
        (p + 3 <= Len(line)
            /\ SubSeq(line, p + 1, p + 3) = <<Colon, Colon, Equals>>)
            => /\ Syn_ruleStep(line, p).pos = p + 3
               /\ Len(Syn_ruleStep(line, p).val) = 1
               /\ Syn_ruleStep(line, p).val[1].kind = "AssignmentExpression"
               /\ Syn_ruleStep(line, p).val[1].Begin = p
               /\ Syn_ruleStep(line, p).val[1].End = p + 3

-----------------------------------------------------------------------------
(* Properties of the document and its completion index.                    *)

(* The number of NonTerminal nodes of the name among the nodes visited.    *)
VisitsOf(visited, name) ==
    Cardinality({ i \in 1..Len(visited) :
                    /\ visited[i].kind = "NonTerminal"
                    /\ visited[i].Name = name })

NamesVisited(visited) ==
    { visited[i].Name :
        i \in { k \in 1..Len(visited) : visited[k].kind = "NonTerminal" } }

(* C13: every buffer event raises the entry of each name by the number of  *)
(* NonTerminal nodes of that name which the event's index traversals       *)
(* visited, so that the entry is the total of the visits so far; no event  *)
(* lowers or removes an entry, whether it puts lines in or takes lines     *)
(* out.                                                                    *)
C13_IndexCountsVisits ==
    [][ /\ DOMAIN index \subseteq DOMAIN index'
        /\ NamesVisited(hunk'.out.visited) \subseteq DOMAIN index'
        /\ \A name \in DOMAIN index' :
               /\ index'[name] >= Lookup(index, name)
               /\ index'[name] = Lookup(index, name)
                                   + VisitsOf(hunk'.out.visited, name) ]_docVars

(* Two events that each parsed the rule <a> ::= <b> once; the second took  *)
(* the rule's place in the buffer.                                         *)
C13_Witness ==
    /\ events = 2
    /\ hunk.kind = "lines"
    /\ doc.Lines = <<RuleLine>>
    /\ VisitsOf(hunk.out.visited, <<98>>) = 1
    /\ Lookup(hunk.before, <<98>>) = 1
    /\ Lookup(index, <<98>>) = 2

(* C14: an event all of whose lines fell back to the tokenizer leaves the  *)
(* completion index as it was.                                             *)
C14_DegradedLeavesIndex ==
    ( /\ hunk.kind \in {"attach", "lines"}
      /\ \A i \in 1..Len(hunk.out.rets) :
             hunk.out.rets[i].ast # Nil => ~hunk.out.rets[i].ast.semantic )
        => index = hunk.before

(* C15: Document.parse never returns a nil AST with a nil error, no panic  *)
(* leaves HightlightHunk, and every line of the hunk is processed and the  *)
(* batch executed, also when Parse panics on a line.                       *)
C15_FaultsAreReported ==
    hunk.kind \in {"attach", "lines"} =>
        /\ \A i \in 1..Len(hunk.out.rets) :
               ~(hunk.out.rets[i].ast = Nil /\ hunk.out.rets[i].err = NoErr)
        /\ ~hunk.out.escaped
        /\ hunk.out.executed
        /\ Len(hunk.out.rets) = hunk.to - hunk.from

-----------------------------------------------------------------------------
(* Properties of the strict parser's optional continuations.               *)

(* The End of the last term of a list or of a chain of alternatives.       *)
RECURSIVE LastEnd(_)
LastEnd(node) ==
    IF node.kind = "List" THEN node.terms[Len(node.terms)].End
    ELSE LastEnd(node.Tail)

(* The strict parser ran on the text.                                      *)
StrictRan == op \in {"SemanticParse", "Parse"}

(* C21: wherever in the text a list starts, parseList leaves the cursor    *)
(* right behind the last term it parsed, and parseExpression succeeds and  *)
(* leaves the cursor right behind the last term of the last list it        *)
(* parsed; when the tail after a bar fails, the head alone is the result.  *)
C21_ContinuationRestoresCursor ==
    StrictRan =>
        \A p \in 0..Len(src) :
            With(Sem_parseList(src, p), LAMBDA list :
                list.err = NoErr =>
                    With(Sem_parseExpression(src, p), LAMBDA expr :
                        /\ list.pos = LastEnd(list.val)
                        /\ expr.err = NoErr
                        /\ expr.pos = LastEnd(expr.val)
                        /\ (expr.val.kind = "List" => expr = list)))

(* A list followed by a blank and a bar with nothing behind it: both the   *)
(* next term of the list and the tail of the expression fail after the     *)
(* cursor has moved on.                                                    *)
C21_Witness ==
    /\ StrictRan
    /\ \E p \in 0..Len(src) :
          /\ Sem_parseList(src, p).err = NoErr
          /\ parseOptWhitespace(src, Sem_parseList(src, p).pos).pos
                 > Sem_parseList(src, p).pos
          /\ parseDisjunction(src,
                 parseOptWhitespace(src, Sem_parseList(src, p).pos).pos).err
                     = NoErr
          /\ Sem_parseExpression(src, p).val.kind = "List"
          /\ Sem_parseExpression(src, p).pos = Sem_parseList(src, p).pos

-----------------------------------------------------------------------------
(* Properties of tasks that share the completion index.                    *)

(* The number of times a name occurs in a sequence of names.               *)
TimesIn(names, name) ==
    Cardinality({ i \in 1..Len(names) : names[i] = name })

Finished == \A t \in Tasks : tasks[t].pc = "done"

-----------------------------------------------------------------------------
(* Properties of the tokenizer on lines the grammar accepts.               *)

Lexeme(kind, name, begin, end) ==
    [kind |-> kind, Name |-> name, Begin |-> begin, End |-> end]

(* The lexemes of the terms of a list from the i-th on.                    *)
RECURSIVE ListLexemes(_, _)
ListLexemes(terms, i) ==
    IF i > Len(terms) THEN <<>>
    ELSE <<Lexeme(IF terms[i].Terminal THEN "Terminal" ELSE "NonTerminal",
                  terms[i].Name, terms[i].Begin, terms[i].End)>>
             \o ListLexemes(terms, i + 1)

(* The lexemes of an expression of the strict parser in source order.      *)
RECURSIVE ExpressionLexemes(_)
ExpressionLexemes(node) ==
    IF node.kind = "List" THEN ListLexemes(node.terms, 1)
    ELSE ExpressionLexemes(node.Head)
             \o <<Lexeme("AlternativeExpression", node.Token.Name,
                         node.Token.Begin, node.Token.End)>>
             \o ExpressionLexemes(node.Tail)

(* The lexemes of a rule as the strict parser reads it.                    *)
RuleLexemes(rule) ==
    <<Lexeme("NonTerminal", rule.Name.Name, rule.Name.Begin, rule.Name.End),
      Lexeme("AssignmentExpression", rule.Token.Name, rule.Token.Begin,
             rule.Token.End)>>
        \o ExpressionLexemes(rule.Stmt)

(* Kind, name and position of each node of a token list.                   *)
NodeLexemes(tokens) ==
    [j \in 1..Len(tokens) |->
        Lexeme(tokens[j].kind, tokens[j].Name, tokens[j].Begin,
               tokens[j].End)]

(* The i-th line of the text is a rule that the strict parser accepts:     *)
(* parseRule reads it to its end without error.                            *)
IsValidRuleLine(i) ==
    /\ Sem_parseRule(scanLines(src, <<>>)[i], 0).err = NoErr
    /\ Sem_parseRule(scanLines(src, <<>>)[i], 0).pos
           = Len(scanLines(src, <<>>)[i])

(* C23: for every line that is a valid rule, the tokenizer's token list is *)
(* the list of the rule's lexemes in source order, each with its kind, its *)
(* name without brackets or quotes, and its position.                      *)
C23_OneNodePerLexeme ==
    Degraded =>
        \A i \in 1..Len(ast.lemmes) :
            IsValidRuleLine(i) =>
                NodeLexemes(ast.lemmes[i])
                    = RuleLexemes(
                          Sem_parseRule(scanLines(src, <<>>)[i], 0).val)

(* A rule of ten lexemes with names, literals of both quotes and bars.     *)
C23_Witness ==
    /\ op = "SyntacticParse"
    /\ Len(ast.lemmes) = 1
    /\ IsValidRuleLine(1)
    /\ Len(ast.lemmes[1]) = 10
    /\ \A kind \in TokenKinds \ {"Comment"} :
           \E j \in 1..10 : ast.lemmes[1][j].kind = kind

-----------------------------------------------------------------------------
(* Properties of the traversal at absent children and at visitor errors.   *)

(* The nodes among those the visitor was invoked on that are present in    *)
(* the tree: not a nil pointer.                                            *)
PresentVisits(visited) == { i \in 1..Len(visited) : ~visited[i].null }

(* C24: a traversal does not fault at an absent child, does not invoke the *)
(* visitor on an absent child, and with a visitor that never fails returns *)
(* the number of nodes present in the tree.                                *)
C24_AbsentChildrenSkipped ==
    trav.done =>
        /\ trav.err # ErrPanic
        /\ \A i \in 1..Len(trav.visited) : ~trav.visited[i].null
        /\ (trav.failAt = 0 /\ trav.err = NoErr
               => trav.count = Cardinality(PresentVisits(trav.visited)))

(* C25: Traverse returns the number of nodes it invoked the visitor on, in *)
(* strict and in degraded mode alike; when the visitor fails, the failing  *)
(* invocation is the last one, its error is returned and the count         *)
(* includes the failing node.                                              *)
C25_CountIsVisitorCalls ==
    (trav.done /\ trav.via = "Traverse"
        /\ trav.err \in {NoErr, ErrVisitor}) =>
        /\ trav.count = Len(trav.visited)
        /\ (trav.err = ErrVisitor => Len(trav.visited) = trav.failAt)
        /\ (trav.err = NoErr =>
               trav.failAt = 0 \/ Len(trav.visited) < trav.failAt)

-----------------------------------------------------------------------------
(* Properties of the mirrored lines.                                       *)

(* The reference splice: the lines before from, the lines put in, and the  *)
(* lines from to on.                                                       *)
Splice(old, lines, from, to) ==
    SubSeq(old, 1, from) \o lines \o SubSeq(old, to + 1, Len(old))

(* C26: for the Document as any sequence of buffer events left it, and for *)
(* every hunk and every 0 <= from <= to <= NoLines(), Update leaves the    *)
(* reference splice in Document.Lines and returns from and from plus the   *)
(* number of lines put in.                                                 *)
C26_UpdateIsSplice ==
    doc # Nil =>
        \A data \in Hunks : \A from \in 0..Len(doc.Lines) :
            \A to \in from..Len(doc.Lines) :
                /\ Update(doc, data, from, to).Lines
                       = Splice(doc.Lines, data, from, to)
                /\ Update(doc, data, from, to).from = from
                /\ Update(doc, data, from, to).to = from + Len(data)

-----------------------------------------------------------------------------
(* Properties of the order of the tokens and of the scan loop's progress.  *)

(* C27: in every token list of the tokenizer each token begins at or       *)
(* behind the end of the token before it, and the tokens' Begin positions  *)
(* increase strictly.                                                      *)
C27_TokensInOrder ==
    Degraded =>
        \A i \in 1..Len(ast.lemmes) : \A j \in 2..Len(ast.lemmes[i]) :
            /\ ast.lemmes[i][j].Begin >= ast.lemmes[i][j - 1].End
            /\ ast.lemmes[i][j].Begin > ast.lemmes[i][j - 1].Begin

(* A line with tokens that touch, tokens with bytes between them, and a    *)
(* comment at its end.                                                     *)
C27_Witness ==
    /\ Degraded
    /\ Len(ast.lemmes) = 1
    /\ Len(ast.lemmes[1]) >= 4
    /\ \E j \in 2..Len(ast.lemmes[1]) :
           ast.lemmes[1][j].Begin = ast.lemmes[1][j - 1].End
    /\ \E j \in 2..Len(ast.lemmes[1]) :
           ast.lemmes[1][j].Begin > ast.lemmes[1][j - 1].End
    /\ ast.lemmes[1][Len(ast.lemmes[1])].kind = "Comment"

(* C28: at every position of every line one pass of the scan loop leaves   *)
(* the cursor further on than it found it; the loop of parseRule therefore *)
(* makes at most len(line) passes and ends with the cursor at or behind    *)
(* the end of the line.  Stated of every text the editor holds when the    *)
(* parser is called; neither the parser nor a traversal changes the text.  *)
C28_ScanLoopTerminates ==
    (op = "edit") =>
        \A line \in LinesOf(src) :
            /\ \A p \in 0..(Len(line) - 1) : Syn_ruleStep(line, p).pos > p
            /\ Cardinality(CursorsOf(line, 0)) <= Len(line)
            /\ Syn_parseRule(line, 0).err = NoErr
            /\ Syn_parseRule(line, 0).pos >= Len(line)

(* The tokenizer ran on a line where it made several passes, fewer than    *)
(* the line has bytes, and left the cursor behind the end of the line.     *)
C28_Witness ==
    /\ Degraded
    /\ LinesOf(src) = {src}
    /\ Cardinality(CursorsOf(src, 0)) >= 3
    /\ Cardinality(CursorsOf(src, 0)) < Len(src)
    /\ Syn_parseRule(src, 0).pos > Len(src)

-----------------------------------------------------------------------------
(* Properties of the reads of the line buffer.                             *)

(* C29: the three bytes that parseDefinitionSimbol compares lie inside the *)
(* buffer: the slice the strict parser takes for the first rule of the     *)
(* text ends at or before len(buf), and the tokenizer compares at a cursor *)
(* position only when three bytes are left.                                *)
C29_ReadsWithinBuffer ==
    StrictRan =>
        /\ Sem_sliceEnd(src) <= Len(src)
        /\ \A line \in LinesOf(src) : \A p \in CursorsOf(line, 0) :
               Syn_parseDefinitionSimbol(line, p).err # EOF
                   => p + 3 <= Len(line)

-----------------------------------------------------------------------------
(* Properties of the highlights.                                           *)

(* The group of the highlight for a node of a highlighted kind.            *)
GroupOf(kind) ==
    IF kind \in {"AssignmentExpression", "AlternativeExpression"}
    THEN "Operator"
    ELSE IF kind = "Terminal" THEN "String"
    ELSE IF kind = "NonTerminal" THEN "Identifier"
    ELSE "Comment"

(* C30: for every node of a highlighted kind that the traversals of a      *)
(* buffer event visited, the batch holds a highlight of the node's group   *)
(* over exactly the node's range from Begin to End; a Comment node is      *)
(* highlighted from its `;` to its End.                                    *)
C30_HighlightUsesNodeRange ==
    hunk.kind \in {"attach", "lines"} =>
        \A i \in 1..Len(hunk.out.visited) :
            (hunk.out.visited[i].kind \in TokenKinds
                /\ ~hunk.out.visited[i].null)
                => \E k \in 1..Len(hunk.out.batch) :
                       /\ hunk.out.batch[k].grp
                              = GroupOf(hunk.out.visited[i].kind)
                       /\ hunk.out.batch[k].begin = hunk.out.visited[i].Begin
                       /\ hunk.out.batch[k].end = hunk.out.visited[i].End

=============================================================================
